---- MODULE Spec2Model ----
(***************************************************************************)
(* A model of main.py: the roster / e-mail matcher.                        *)
(*                                                                         *)
(* Text is a sequence of one-character strings.  The Chinese characters    *)
(* the program looks for are written as their pinyin syllable, one token   *)
(* per character: "xiu" "gai" (modify), "mi" "ma" (password), "shan" "chu" *)
(* (remove), "xin" "zeng" (add), "zhu" "ti" (subject), "zheng" "wen"       *)
(* (body), "fu" "jian" (attachment), "shi" (yes), "fou" (no), and "wei"    *)
(* "pi" "pei" "dao" "you" "jian" (no e-mail matched).  "NaN" is the float   *)
(* pandas puts in an empty cell.                                           *)
(***************************************************************************)
EXTENDS Integers, Sequences, FiniteSets, TLC

VARIABLES
    pc,          \* where the program (or the function under call) stands
    call,        \* the arguments of the function applied by a unit specification
    ret,         \* its return value
    df,          \* process_roster: the roster rows
    emails,      \* process_roster: the parsed e-mails
    lowered,     \* the *_lower keys process_roster adds to each e-mail
    row_i,       \* index of the roster row of the current iteration
    email_j,     \* index of the e-mail of the current inner iteration
    name_low,    \* name.lower() of the current row
    id_low,      \* eid.lower() of the current row
    matches,     \* list of (email, source) of the current row
    selected,    \* matches[0] after the sort: (selected_email, source)
    scenario,    \* determine_scenario(selected_email["combined_lower"])
    snippet,     \* the evidence text of the current row
    resolved,    \* rows with a matching e-mail
    unresolved   \* rows without

vars == <<pc, call, ret, df, emails, lowered, row_i, email_j, name_low, id_low,
          matches, selected, scenario, snippet, resolved, unresolved>>

rosterVars == <<df, emails, lowered, row_i, email_j, name_low, id_low,
                matches, selected, scenario, snippet, resolved, unresolved>>

(***************************************************************************)
(* Bounds of the inputs.                                                   *)
(***************************************************************************)
MaxValueLen == 4      \* characters of a raw roster value (parse_name_and_id)
MaxLines == 3         \* lines of a body (body_has_valid_match)
MaxSegs == 5          \* segments of a text (determine_scenario)
MaxSubjectLen == 1    \* characters of a subject (the Matcher)
MaxMatcherLines == 2  \* lines of a body (the Matcher)
MaxAttachments == 1   \* attachments of an e-mail (the Matcher)
MaxEmails == 3        \* e-mails of an archive (the selection)
MaxDate == 2          \* distinct Date headers (the selection)
MaxRows == 2          \* rows of a roster

(***************************************************************************)
(* Characters and the str methods the program uses.                        *)
(***************************************************************************)
Whitespace == {" ", "\t", "\n", "\r"}

Digits == {"0", "1", "2", "3", "4", "5", "6", "7", "8", "9"}

\* str.lower() on one character
LowerChar(c) ==
    CASE c = "A" -> "a" [] c = "B" -> "b" [] c = "C" -> "c" [] c = "F" -> "f"
      [] c = "M" -> "m" [] c = "N" -> "n" [] c = "S" -> "s" [] c = "T" -> "t"
      [] OTHER -> c

\* str.lower()
Lower(s) == [i \in 1..Len(s) |-> LowerChar(s[i])]

\* s[a:b] for 0 <= a, with b clipped to len(s)
Slice(s, a, b) == SubSeq(s, a + 1, IF b > Len(s) THEN Len(s) ELSE b)

\* s.startswith(p)
StartsWith(s, p) == Len(p) <= Len(s) /\ SubSeq(s, 1, Len(p)) = p

\* the 0-based positions at which k occurs in s
Occurrences(s, k) ==
    {i \in 0..(Len(s) - Len(k)) : SubSeq(s, i + 1, i + Len(k)) = k}

\* k in s
Contains(s, k) == Occurrences(s, k) # {}

\* s.find(k)
Find(s, k) ==
    IF Contains(s, k)
    THEN CHOOSE i \in Occurrences(s, k) : \A j \in Occurrences(s, k) : i <= j
    ELSE -1

\* s.strip()
Strip(s) ==
    LET keep == {i \in 1..Len(s) : s[i] \notin Whitespace}
    IN  IF keep = {} THEN <<>>
        ELSE LET lo == CHOOSE i \in keep : \A j \in keep : i <= j
                 hi == CHOOSE i \in keep : \A j \in keep : j <= i
             IN  SubSeq(s, lo, hi)

\* s.split(sep) for a one-character sep: the list of the pieces
RECURSIVE Split(_, _)
Split(s, sep) ==
    LET at == {i \in 1..Len(s) : s[i] = sep}
    IN  IF at = {} THEN <<s>>
        ELSE LET i == CHOOSE p \in at : \A q \in at : p <= q
             IN  <<SubSeq(s, 1, i - 1)>> \o Split(SubSeq(s, i + 1, Len(s)), sep)

\* s.count(k), k non-empty: occurrences from left to right, not overlapping
RECURSIVE Count(_, _)
Count(s, k) ==
    LET i == Find(s, k)
    IN  IF i = -1 THEN 0
        ELSE 1 + Count(SubSeq(s, i + Len(k) + 1, Len(s)), k)

\* s.replace(k, ""), k non-empty: one pass from left to right
RECURSIVE Remove(_, _)
Remove(s, k) ==
    LET i == Find(s, k)
    IN  IF i = -1 THEN s
        ELSE SubSeq(s, 1, i) \o Remove(SubSeq(s, i + Len(k) + 1, Len(s)), k)

\* sep.join(parts)
RECURSIVE Join(_, _)
Join(parts, sep) ==
    IF parts = <<>> THEN <<>>
    ELSE IF Len(parts) = 1 THEN parts[1]
    ELSE parts[1] \o sep \o Join(Tail(parts), sep)

\* re.search(r"\d", s)
HasDigit(s) == \E i \in 1..Len(s) : s[i] \in Digits

\* all texts of at most n characters of alphabet A
RECURSIVE TextsUpTo(_, _)
TextsUpTo(A, n) ==
    IF n = 0 THEN {<<>>}
    ELSE LET shorter == TextsUpTo(A, n - 1)
         IN  shorter \cup {Append(t, c) : t \in shorter, c \in A}

\* all lists of at most n elements of S
ListsUpTo(S, n) == TextsUpTo(S, n)

(***************************************************************************)
(* parse_name_and_id                                                       *)
(***************************************************************************)
\* a plausible slip: the digit test on the second part instead of the first
parse_name_and_id_SecondPart(value) ==
    LET s == Strip(value)
        parts == Split(s, ",")
    IN  IF s = <<>> THEN <<<<>>, <<>>>>
        ELSE IF Len(parts) = 2
             THEN LET p0 == Strip(parts[1])
                      p1 == Strip(parts[2])
                  IN  IF HasDigit(p1) THEN <<p0, p1>> ELSE <<p1, p0>>
             ELSE <<s, <<>>>>

\* a plausible slip: the first two parts are taken whatever the number of parts
parse_name_and_id_FirstTwo(value) ==
    LET s == Strip(value)
        parts == Split(s, ",")
    IN  IF s = <<>> THEN <<<<>>, <<>>>>
        ELSE IF Len(parts) >= 2
             THEN LET p0 == Strip(parts[1])
                      p1 == Strip(parts[2])
                  IN  IF HasDigit(p0) THEN <<p1, p0>> ELSE <<p0, p1>>
             ELSE <<s, <<>>>>

\* returns <<name, id>>
parse_name_and_id(value) ==
    LET s == Strip(value)
        parts == Split(s, ",")
    IN  IF s = <<>> THEN <<<<>>, <<>>>>
        ELSE IF Len(parts) = 2
             THEN LET p0 == Strip(parts[1])
                      p1 == Strip(parts[2])
                  IN  IF HasDigit(p0) THEN <<p1, p0>> ELSE <<p0, p1>>
             ELSE <<s, <<>>>>

(***************************************************************************)
(* The state of process_roster while a unit specification runs, and of the *)
(* unit variables while process_roster runs.                               *)
(***************************************************************************)
NoCall == [fn |-> "none"]

NoRet == <<>>

RosterIdle ==
    /\ df = <<>>
    /\ emails = <<>>
    /\ lowered = <<>>
    /\ row_i = 0
    /\ email_j = 0
    /\ name_low = <<>>
    /\ id_low = <<>>
    /\ matches = <<>>
    /\ selected = <<>>
    /\ scenario = <<>>
    /\ snippet = <<>>
    /\ resolved = <<>>
    /\ unresolved = <<>>

(***************************************************************************)
(* SpecParse: parse_name_and_id applied to every raw value of at most      *)
(* MaxValueLen characters among a letter, a digit, the comma and a space.  *)
(***************************************************************************)
ValueAlphabet == {"a", "1", ",", " "}

InitParse ==
    /\ pc = "call"
    /\ call \in {[fn |-> "parse_name_and_id", value |-> v] :
                    v \in TextsUpTo(ValueAlphabet, MaxValueLen)}
    /\ ret = NoRet
    /\ RosterIdle

CallParse ==
    /\ pc = "call"
    /\ call.fn = "parse_name_and_id"
    /\ ret' = parse_name_and_id(call.value)
    /\ pc' = "done"
    /\ UNCHANGED <<call, rosterVars>>

NextParse == CallParse

SpecParse == InitParse /\ [][NextParse]_vars

Parsed == pc = "done" /\ call.fn = "parse_name_and_id"

\* the number of commas of a text
Commas(s) == Cardinality({i \in 1..Len(s) : s[i] = ","})

\* the text before the first comma, and the text after it, both trimmed
BeforeFirstComma(s) == Strip(SubSeq(s, 1, Find(s, <<",">>)))

AfterFirstComma(s) == Strip(SubSeq(s, Find(s, <<",">>) + 2, Len(s)))

\* C8 as stated: a value with a comma is split at the FIRST comma, the part with
\* a digit is the id and the other the name; a value without comma is the name.
C8_Original ==
    Parsed =>
        LET v == call.value
            a == BeforeFirstComma(v)
            b == AfterFirstComma(v)
        IN  IF Commas(v) = 0
            THEN ret = <<Strip(v), <<>>>>
            ELSE /\ (HasDigit(a) /\ ~HasDigit(b)) => ret = <<b, a>>
                 /\ (HasDigit(b) /\ ~HasDigit(a)) => ret = <<a, b>>

\* C8 amended: a value with exactly one comma is split at it into two trimmed
\* parts; the first part is the id when it contains a digit, otherwise the
\* second part is; a value with no comma or with more than one comma is,
\* trimmed, the name, with an empty id.
C8_Amended ==
    Parsed =>
        LET v == call.value
            a == BeforeFirstComma(v)
            b == AfterFirstComma(v)
        IN  IF Commas(v) = 1
            THEN ret = IF HasDigit(a) THEN <<b, a>> ELSE <<a, b>>
            ELSE ret = <<Strip(v), <<>>>>

\* witness of C8: "a,1" parsed to the name "a" and the id "1"
C8_Witness ==
    /\ Parsed
    /\ call.value = <<"a", ",", "1">>
    /\ ret = <<<<"a">>, <<"1">>>>

\* C9 as stated: a non-empty raw value gives a name or an id (a value of
\* blanks only is taken as empty)
C9_Original ==
    (Parsed /\ Strip(call.value) # <<>>) => (ret[1] # <<>> \/ ret[2] # <<>>)

\* C9 amended: name and id are both empty exactly when the raw value, trimmed,
\* is empty or is a lone comma; every other raw value gives a name or an id.
C9_Amended ==
    Parsed =>
        ((ret[1] = <<>> /\ ret[2] = <<>>) <=> Strip(call.value) \in {<<>>, <<",">>})

\* witness of C9: a value with an empty first part still gives an id
C9_Witness ==
    /\ Parsed
    /\ call.value = <<",", " ", "1">>
    /\ ret = <<<<>>, <<"1">>>>

(***************************************************************************)
(* body_has_valid_match                                                    *)
(***************************************************************************)
MANAGER == <<"m", "a", "n", "a", "g", "e", "r">>

\* the characters before an occurrence that are searched for "manager"
ManagerWindow == 200

HeaderPrefixes ==
    { <<"f", "r", "o", "m", ":">>,
      <<"t", "o", ":">>,
      <<"c", "c", ":">>,
      <<"s", "e", "n", "t", ":">>,
      <<"s", "u", "b", "j", "e", "c", "t", ":">> }

\* trimmed.startswith(("from:", "to:", "cc:", "sent:", "subject:"))
StartsWithHeader(trimmed) == \E p \in HeaderPrefixes : StartsWith(trimmed, p)

\* the loop over the lines from line n on; checkAt is the test for "@"
RECURSIVE ScanLines(_, _, _, _, _)
ScanLines(lines, n, full_text, keyword_lower, checkAt) ==
    IF n > Len(lines) THEN FALSE
    ELSE LET line == lines[n]
             trimmed == Lower(Strip(line))
             idx == Find(full_text, keyword_lower)
             start == IF idx - ManagerWindow > 0 THEN idx - ManagerWindow ELSE 0
             prefix == Slice(full_text, start, idx)
             rest == ScanLines(lines, n + 1, full_text, keyword_lower, checkAt)
         IN  IF ~Contains(line, keyword_lower) THEN rest
             ELSE IF StartsWithHeader(trimmed) THEN rest
             ELSE IF checkAt /\ Contains(line, <<"@">>) THEN rest
             ELSE IF idx # -1 /\ Contains(prefix, MANAGER) THEN rest
             ELSE TRUE

\* a plausible slip: lines with "@" are not skipped
body_has_valid_match_NoAt(body_lower, keyword_lower) ==
    ScanLines(Split(body_lower, "\n"), 1, body_lower, keyword_lower, FALSE)

body_has_valid_match(body_lower, keyword_lower) ==
    ScanLines(Split(body_lower, "\n"), 1, body_lower, keyword_lower, TRUE)

(***************************************************************************)
(* SpecBody: body_has_valid_match applied to the bodies of at most         *)
(* MaxLines lines, each one of BodyLines, and a keyword.                   *)
(***************************************************************************)
Pad(n) == [i \in 1..n |-> "x"]

BodyLines ==
    { <<>>,
      <<"b">>,
      <<"c">>,
      <<"t", "o", ":", " ", "b">>,
      <<" ", "T", "o", ":", "b">>,
      <<"b", "@", "c">>,
      MANAGER \o <<" ", "b">>,
      MANAGER \o Pad(ManagerWindow - Len(MANAGER)) \o <<"b">>,
      MANAGER \o Pad(ManagerWindow - Len(MANAGER) + 1) \o <<"b">> }

BodyKeywords == {<<"b">>, <<"c">>}

InitBody ==
    /\ pc = "call"
    /\ call \in {[fn |-> "body_has_valid_match",
                  body_lower |-> Join(ls, <<"\n">>),
                  keyword_lower |-> k] :
                    ls \in ListsUpTo(BodyLines, MaxLines), k \in BodyKeywords}
    /\ ret = NoRet
    /\ RosterIdle

CallBody ==
    /\ pc = "call"
    /\ call.fn = "body_has_valid_match"
    /\ ret' = body_has_valid_match(call.body_lower, call.keyword_lower)
    /\ pc' = "done"
    /\ UNCHANGED <<call, rosterVars>>

NextBody == CallBody

SpecBody == InitBody /\ [][NextBody]_vars

BodyChecked == pc = "done" /\ call.fn = "body_has_valid_match"

\* a line that is a quoted header or holds an address
IsIgnoredLine(line) ==
    \/ StartsWithHeader(Lower(Strip(line)))
    \/ \E i \in 1..Len(line) : line[i] = "@"

\* the line of text s that holds the 0-based position p
LineAt(s, p) ==
    LET before == {i \in 1..p : s[i] = "\n"}
        after == {i \in (p + 1)..Len(s) : s[i] = "\n"}
        lo == IF before = {} THEN 1
              ELSE 1 + CHOOSE i \in before : \A j \in before : j <= i
        hi == IF after = {} THEN Len(s)
              ELSE (CHOOSE i \in after : \A j \in after : i <= j) - 1
    IN  SubSeq(s, lo, hi)

\* "manager" lies within the ManagerWindow characters before position p
ManagerBefore(s, p) ==
    \E q \in Occurrences(s, MANAGER) :
        q + Len(MANAGER) <= p /\ p - q <= ManagerWindow

\* the occurrences of k in s that are on a line that is not ignored
BodyOccurrences(s, k) == {p \in Occurrences(s, k) : ~IsIgnoredLine(LineAt(s, p))}

\* C2 as stated: when the occurrences of the keyword outside header lines all
\* have "manager" within the 200 characters before them, the body match is
\* rejected.
C2_ManagerRejected ==
    BodyChecked =>
        LET s == call.body_lower
            k == call.keyword_lower
        IN  (BodyOccurrences(s, k) # {}
               /\ \A p \in BodyOccurrences(s, k) : ManagerBefore(s, p))
            => ret = FALSE

\* C3: a body whose lines holding the keyword all are header lines or lines
\* with "@" gives no body match.
C3_IgnoredLinesNeverMatch ==
    BodyChecked =>
        LET ls == Split(call.body_lower, "\n")
        IN  (\A n \in 1..Len(ls) :
                Contains(ls[n], call.keyword_lower) => IsIgnoredLine(ls[n]))
            => ret = FALSE

\* witness of C3: the keyword stands on a header line and on a line with "@", and nowhere else
C3_Witness ==
    /\ BodyChecked
    /\ call.keyword_lower = <<"b">>
    /\ call.body_lower = <<" ", "T", "o", ":", "b", "\n", "b", "@", "c">>
    /\ ret = FALSE

(***************************************************************************)
(* determine_scenario                                                      *)
(***************************************************************************)
MODIFY == <<"xiu", "gai">>

REMOVE == <<"shan", "chu">>

ADD == <<"xin", "zeng">>

MODIFY_PASSWORD == <<"xiu", "gai", "mi", "ma">>

\* keywords = ["xiugai", "shanchu", "xinzeng"], in the order of the dict
keywords == <<MODIFY, REMOVE, ADD>>

\* counts, after the compound token is removed from the text
ScenarioCounts(text_lower) ==
    LET text == Remove(text_lower, MODIFY_PASSWORD)
    IN  [i \in 1..Len(keywords) |-> Count(text, keywords[i])]

\* max(counts.values())
MaxCount(counts) ==
    CHOOSE v \in {counts[i] : i \in DOMAIN counts} :
        \A i \in DOMAIN counts : counts[i] <= v

\* a plausible slip: a tie goes to the first keyword of the maximum
determine_scenario_FirstOfTop(text_lower) ==
    LET counts == ScenarioCounts(text_lower)
        max_val == MaxCount(counts)
        top == SelectSeq(keywords, LAMBDA k : Count(Remove(text_lower, MODIFY_PASSWORD), k) = max_val)
    IN  IF max_val = 0 THEN ADD ELSE top[1]

determine_scenario(text_lower) ==
    LET counts == ScenarioCounts(text_lower)
        max_val == MaxCount(counts)
        top == SelectSeq(<<1, 2, 3>>, LAMBDA i : counts[i] = max_val)
    IN  IF max_val = 0 THEN ADD
        ELSE IF Len(top) = 1 THEN keywords[top[1]]
        ELSE ADD

(***************************************************************************)
(* SpecScenario: determine_scenario applied to the texts of at most        *)
(* MaxSegs segments, each a piece of a keyword or of the compound token.   *)
(***************************************************************************)
ScenarioSegments ==
    { <<"xiu">>, <<"gai">>, <<"mi", "ma">>, <<"xin">>, <<"zeng">>, <<"shan", "chu">> }

InitScenario ==
    /\ pc = "call"
    /\ call \in {[fn |-> "determine_scenario", text_lower |-> Join(segs, <<>>)] :
                    segs \in ListsUpTo(ScenarioSegments, MaxSegs)}
    /\ ret = NoRet
    /\ RosterIdle

CallScenario ==
    /\ pc = "call"
    /\ call.fn = "determine_scenario"
    /\ ret' = determine_scenario(call.text_lower)
    /\ pc' = "done"
    /\ UNCHANGED <<call, rosterVars>>

NextScenario == CallScenario

SpecScenario == InitScenario /\ [][NextScenario]_vars

Classified == pc = "done" /\ call.fn = "determine_scenario"

\* the number of occurrences of keyword k that determine_scenario counts in t
Counted(t, k) == Count(Remove(t, MODIFY_PASSWORD), k)

\* C4: Add when the three counts are all zero or when the maximum is shared;
\* otherwise the keyword whose count is strictly greater than the other two.
C4_TieOrZeroIsAdd ==
    Classified =>
        LET m == Counted(call.text_lower, MODIFY)
            r == Counted(call.text_lower, REMOVE)
            a == Counted(call.text_lower, ADD)
        IN  /\ (m = 0 /\ r = 0 /\ a = 0) => ret = ADD
            /\ (m > r /\ m > a) => ret = MODIFY
            /\ (r > m /\ r > a) => ret = REMOVE
            /\ (a > m /\ a > r) => ret = ADD
            /\ (~(m > r /\ m > a) /\ ~(r > m /\ r > a) /\ ~(a > m /\ a > r))
                  => ret = ADD

\* witness of C4: Modify and Remove are counted once each and none is counted more: a tie
C4_Witness ==
    /\ Classified
    /\ call.text_lower = MODIFY \o REMOVE
    /\ ret = ADD

\* C5 as stated: the Modify count is the number of Modify tokens of the
\* original text that are not the head of a compound token, and the Remove and
\* Add counts are those of the original text.
C5_CompoundNeverCounts ==
    Classified =>
        LET t == call.text_lower
            counts == ScenarioCounts(t)
        IN  /\ counts[1] = Cardinality(Occurrences(t, MODIFY)
                                          \ Occurrences(t, MODIFY_PASSWORD))
            /\ counts[2] = Count(t, REMOVE)
            /\ counts[3] = Count(t, ADD)

(***************************************************************************)
(* process_roster: the values it reads and writes                          *)
(***************************************************************************)
\* source = None
NONE == <<>>

SUBJECT == <<"zhu", "ti">>

BODY == <<"zheng", "wen">>

ATTACHMENT == <<"fu", "jian">>

YES == <<"shi">>

NO == <<"fou">>

\* the evidence of a row no e-mail matched
NO_MATCH == <<"wei", "pi", "pei", "dao", "you", "jian">>

\* an empty cell of the roster, as pandas reads it
NAN == <<"NaN">>

\* str(cell or "")
Str(cell) == IF cell = NAN THEN <<"n", "a", "n">> ELSE cell

\* msg_date = None: the Date header is absent or cannot be parsed
NoDate == -1

\* datetime.min, which is before every date a Date header can give
DatetimeMin == 0

\* the characters of the evidence
SnippetLen == 500

\* (value or "").strip() on the float NaN of an empty cell: NaN is truthy, and
\* a float has no strip, so parse_name_and_id raises AttributeError
Raises(name_raw) == name_raw = NAN

\* the keys the first loop adds to one e-mail
LowerEmail(email) ==
    LET subject_lower == Lower(email.subject)
        body_lower == Lower(email.body)
        attachments_lower ==
            [a \in 1..Len(email.attachments) |-> Lower(email.attachments[a].text)]
    IN  [subject_lower |-> subject_lower,
         body_lower |-> body_lower,
         attachments_lower |-> attachments_lower,
         combined_lower |->
            Join(<<subject_lower, body_lower>> \o attachments_lower, <<"\n">>)]

\* name_low and name_low in text or id_low and id_low in text
EitherIn(name, id, text) ==
    \/ (name # <<>> /\ Contains(text, name))
    \/ (id # <<>> /\ Contains(text, id))

\* a plausible slip: the body is searched before the subject
Locate_BodyFirst(name, id, email) ==
    LET found ==
            IF name # <<>> /\ Contains(email.body_lower, name)
                 /\ body_has_valid_match(email.body_lower, name)
            THEN TRUE
            ELSE id # <<>> /\ Contains(email.body_lower, id)
                   /\ body_has_valid_match(email.body_lower, id)
    IN  IF found THEN BODY
        ELSE IF EitherIn(name, id, email.subject_lower) THEN SUBJECT
        ELSE IF \E a \in 1..Len(email.attachments_lower) :
                    EitherIn(name, id, email.attachments_lower[a])
             THEN ATTACHMENT
        ELSE NONE

\* the source of one e-mail for one row: the body of the loop over the e-mails
Locate(name, id, email) ==
    LET afterSubject ==
            IF EitherIn(name, id, email.subject_lower) THEN SUBJECT ELSE NONE
        found ==
            IF name # <<>> /\ Contains(email.body_lower, name)
                 /\ body_has_valid_match(email.body_lower, name)
            THEN TRUE
            ELSE id # <<>> /\ Contains(email.body_lower, id)
                   /\ body_has_valid_match(email.body_lower, id)
        afterBody ==
            IF afterSubject = NONE /\ (name # <<>> \/ id # <<>>) /\ found
            THEN BODY
            ELSE afterSubject
    IN  IF afterBody = NONE /\ (name # <<>> \/ id # <<>>)
             /\ \E a \in 1..Len(email.attachments_lower) :
                    EitherIn(name, id, email.attachments_lower[a])
        THEN ATTACHMENT
        ELSE afterBody

\* x[0]["date"] or datetime.min, for the e-mail of index j
DateKey(j) == IF emails[j].date = NoDate THEN DatetimeMin ELSE emails[j].date

\* a plausible slip: an ascending sort that is then reversed, which puts the
\* last of the e-mails of equal date first
RECURSIVE InsertByDate_Reversed(_, _)
InsertByDate_Reversed(sorted, m) ==
    IF sorted = <<>> THEN <<m>>
    ELSE IF DateKey(Head(sorted)[1]) > DateKey(m[1])
         THEN <<Head(sorted)>> \o InsertByDate_Reversed(Tail(sorted), m)
         ELSE <<m>> \o sorted

\* m put into a list sorted by date, latest first, behind the entries of its date
RECURSIVE InsertByDate(_, _)
InsertByDate(sorted, m) ==
    IF sorted = <<>> THEN <<m>>
    ELSE IF DateKey(Head(sorted)[1]) >= DateKey(m[1])
         THEN <<Head(sorted)>> \o InsertByDate(Tail(sorted), m)
         ELSE <<m>> \o sorted

\* matches.sort(key=..., reverse=True): stable
RECURSIVE SortByDate(_)
SortByDate(ms) ==
    IF ms = <<>> THEN <<>>
    ELSE InsertByDate(SortByDate(SubSeq(ms, 1, Len(ms) - 1)), ms[Len(ms)])

\* the text the evidence is cut from
SnippetSource(email, name, id, source) ==
    IF source = BODY THEN email.body
    ELSE IF source = ATTACHMENT
    THEN LET hits == {a \in 1..Len(email.attachments) :
                        EitherIn(name, id, Lower(email.attachments[a].text))}
             first == CHOOSE a \in hits : \A b \in hits : a <= b
         IN  IF hits # {} /\ email.attachments[first].text # <<>>
             THEN email.attachments[first].text
             ELSE email.body
    ELSE IF email.body # <<>> THEN email.body ELSE email.subject

\* orig_scen is empty
IsEmptyCell(cell) ==
    LET orig == Str(cell)
    IN  orig = <<>> \/ Lower(orig) \in {<<"n", "a", "n">>, <<>>}

\* a plausible slip: the scenario is written whatever the row held
ResultRow_Overwrite(row, scen, source, evidence) ==
    [index |-> row.index,
     EmployeeNameAndId |-> row.EmployeeNameAndId,
     ChangeScenario |-> scen,
     ActionCorrect |-> YES,
     ReceiptConfirmed |-> IF scen \in {ADD, REMOVE} THEN YES ELSE row.ReceiptConfirmed,
     MatchSource |-> source,
     MatchEvidence |-> evidence]

\* result_row
ResultRow(row, scen, source, evidence) ==
    [index |-> row.index,
     EmployeeNameAndId |-> row.EmployeeNameAndId,
     ChangeScenario |->
        IF IsEmptyCell(row.ChangeScenario) THEN scen ELSE row.ChangeScenario,
     ActionCorrect |->
        IF IsEmptyCell(row.ChangeScenario) THEN YES ELSE row.ActionCorrect,
     ReceiptConfirmed |-> IF scen \in {ADD, REMOVE} THEN YES ELSE row.ReceiptConfirmed,
     MatchSource |-> source,
     MatchEvidence |-> evidence]

\* manual_row
ManualRow(row) ==
    [index |-> row.index,
     EmployeeNameAndId |-> row.EmployeeNameAndId,
     ChangeScenario |-> row.ChangeScenario,
     ActionCorrect |-> row.ActionCorrect,
     ReceiptConfirmed |-> row.ReceiptConfirmed,
     MatchSource |-> <<>>,
     MatchEvidence |-> NO_MATCH]

(***************************************************************************)
(* process_roster: its steps                                               *)
(***************************************************************************)
\* the first loop: the lower-case content of every e-mail
Precompute ==
    /\ pc = "precompute"
    /\ lowered' = [k \in 1..Len(emails) |-> LowerEmail(emails[k])]
    /\ pc' = "rows"
    /\ UNCHANGED <<call, ret, df, emails, row_i, email_j, name_low, id_low,
                   matches, selected, scenario, snippet, resolved, unresolved>>

\* the head of the loop over the rows: the identity of the next row; the
\* exception of parse_name_and_id is caught nowhere and ends process_roster
NextRow ==
    /\ pc = "rows"
    /\ row_i < Len(df)
    /\ row_i' = row_i + 1
    /\ LET name_raw == df[row_i + 1].EmployeeNameAndId
           parsed == parse_name_and_id(name_raw)
       IN  IF Raises(name_raw)
           THEN /\ pc' = "raised"
                /\ UNCHANGED <<name_low, id_low, matches, email_j>>
           ELSE /\ name_low' = Lower(parsed[1])
                /\ id_low' = Lower(parsed[2])
                /\ matches' = <<>>
                /\ email_j' = 1
                /\ pc' = "emails"
    /\ UNCHANGED <<call, ret, df, emails, lowered, selected, scenario, snippet,
                   resolved, unresolved>>

\* one iteration of the loop over the e-mails
MatchEmail ==
    /\ pc = "emails"
    /\ email_j <= Len(emails)
    /\ LET source == Locate(name_low, id_low, lowered[email_j])
       IN  matches' = IF source # NONE
                      THEN Append(matches, <<email_j, source>>)
                      ELSE matches
    /\ email_j' = email_j + 1
    /\ UNCHANGED <<pc, call, ret, df, emails, lowered, row_i, name_low, id_low,
                   selected, scenario, snippet, resolved, unresolved>>

\* some e-mail matched: the most recent one, its scenario and the evidence
Select ==
    /\ pc = "emails"
    /\ email_j > Len(emails)
    /\ matches # <<>>
    /\ matches' = SortByDate(matches)
    /\ selected' = [email |-> matches'[1][1], source |-> matches'[1][2]]
    /\ scenario' = determine_scenario(lowered[selected'.email].combined_lower)
    /\ snippet' = Slice(SnippetSource(emails[selected'.email], name_low, id_low,
                                       selected'.source), 0, SnippetLen)
    /\ pc' = "emit"
    /\ UNCHANGED <<call, ret, df, emails, lowered, row_i, email_j, name_low,
                   id_low, resolved, unresolved>>

\* the row goes to the resolved rows
Emit ==
    /\ pc = "emit"
    /\ resolved' = Append(resolved,
                          ResultRow(df[row_i], scenario, selected.source, snippet))
    /\ pc' = "rows"
    /\ UNCHANGED <<call, ret, df, emails, lowered, row_i, email_j, name_low,
                   id_low, matches, selected, scenario, snippet, unresolved>>

\* a plausible slip: the row is put in front of the unresolved rows
Unmatched_Prepend ==
    /\ pc = "emails"
    /\ email_j > Len(emails)
    /\ matches = <<>>
    /\ unresolved' = <<ManualRow(df[row_i])>> \o unresolved
    /\ pc' = "rows"
    /\ UNCHANGED <<call, ret, df, emails, lowered, row_i, email_j, name_low,
                   id_low, matches, selected, scenario, snippet, resolved>>

\* no e-mail matched: the row goes to the unresolved rows
Unmatched ==
    /\ pc = "emails"
    /\ email_j > Len(emails)
    /\ matches = <<>>
    /\ unresolved' = Append(unresolved, ManualRow(df[row_i]))
    /\ pc' = "rows"
    /\ UNCHANGED <<call, ret, df, emails, lowered, row_i, email_j, name_low,
                   id_low, matches, selected, scenario, snippet, resolved>>

\* return pd.DataFrame(resolved), pd.DataFrame(unresolved)
Return ==
    /\ pc = "rows"
    /\ row_i = Len(df)
    /\ pc' = "done"
    /\ UNCHANGED <<call, ret, rosterVars>>

Next ==
    \/ Precompute
    \/ NextRow
    \/ MatchEmail
    \/ Select
    \/ Emit
    \/ Unmatched
    \/ Return

\* process_roster is entered with a roster and an archive
Entered(roster, archive) ==
    /\ pc = "precompute"
    /\ call = NoCall
    /\ ret = NoRet
    /\ df = roster
    /\ emails = archive
    /\ lowered = <<>>
    /\ row_i = 0
    /\ email_j = 0
    /\ name_low = <<>>
    /\ id_low = <<>>
    /\ matches = <<>>
    /\ selected = <<>>
    /\ scenario = <<>>
    /\ snippet = <<>>
    /\ resolved = <<>>
    /\ unresolved = <<>>

\* a roster row of the given cells, at DataFrame index i
Row(i, cells) ==
    [index |-> i,
     EmployeeNameAndId |-> cells[1],
     ChangeScenario |-> cells[2],
     ActionCorrect |-> cells[3],
     ReceiptConfirmed |-> cells[4]]

\* an e-mail as parse_eml_file returns it
Email(subject, body, texts, date) ==
    [subject |-> subject,
     body |-> body,
     attachments |-> [a \in 1..Len(texts) |-> [text |-> texts[a]]],
     date |-> date]

\* the rosters of at most n rows whose cells are drawn from kinds
Rosters(kinds, n) ==
    {[i \in 1..Len(l) |-> Row(i, l[i])] : l \in ListsUpTo(kinds, n)}

(***************************************************************************)
(* Spec: process_roster on the rosters of at most MaxRows rows, for two    *)
(* employees, with every combination of empty and filled cells, and with   *)
(* rows that are empty altogether, against a few archives.                 *)
(***************************************************************************)
RowKinds ==
    {<<v, s, a, r>> : v \in {<<"b">>, <<"c">>},
                      s \in {NAN, MODIFY},
                      a \in {NAN, NO},
                      r \in {NAN, NO}}
    \cup {<<NAN, NAN, NAN, NAN>>}

\* "b" in the subject, no keyword: Add
MailSubjectB == Email(<<"b">>, <<>>, <<>>, NoDate)

\* "b" in the body, with the Modify keyword
MailBodyB == Email(<<"x">>, <<"b", " ">> \o MODIFY, <<>>, NoDate)

\* "c" in an attachment, with the Remove keyword
MailAttachmentC == Email(<<"x">>, <<>>, <<<<"C", " ">> \o REMOVE>>, NoDate)

Archives ==
    { <<>>,
      <<MailSubjectB>>,
      <<MailBodyB, MailAttachmentC>> }

Init == \E roster \in Rosters(RowKinds, MaxRows), archive \in Archives :
            Entered(roster, archive)

Spec == Init /\ [][Next]_vars

\* the identity of a roster row, lower-cased; an empty cell has no name, no id
RowName(row) ==
    IF row.EmployeeNameAndId = NAN THEN <<>>
    ELSE Lower(parse_name_and_id(row.EmployeeNameAndId)[1])

RowId(row) ==
    IF row.EmployeeNameAndId = NAN THEN <<>>
    ELSE Lower(parse_name_and_id(row.EmployeeNameAndId)[2])

\* some e-mail of the archive matches the row
HasMatch(row) ==
    \E j \in 1..Len(emails) :
        Locate(RowName(row), RowId(row), LowerEmail(emails[j])) # NONE

\* the DataFrame indexes of a list of output rows, in their order
Indexes(rows) == [k \in 1..Len(rows) |-> rows[k].index]

Increasing(seq) == \A a, b \in 1..Len(seq) : a < b => seq[a] < seq[b]

Range(seq) == {seq[k] : k \in 1..Len(seq)}

\* C7 as stated: in every output row, each of the three fields that was not
\* empty in the roster row has the value it had there.
C7_FilledFieldsKept ==
    \A out \in Range(resolved) \cup Range(unresolved) :
        LET in == df[out.index]
        IN  /\ ~IsEmptyCell(in.ChangeScenario) => out.ChangeScenario = in.ChangeScenario
            /\ ~IsEmptyCell(in.ActionCorrect) => out.ActionCorrect = in.ActionCorrect
            /\ ~IsEmptyCell(in.ReceiptConfirmed)
                  => out.ReceiptConfirmed = in.ReceiptConfirmed

\* C7 amended: an unmatched row keeps the three fields.  On a matched row,
\* ChangeScenario is set (to the computed scenario) only when it was empty;
\* ActionCorrect is set to Yes exactly when ChangeScenario was empty, whatever
\* ActionCorrect held; ReceiptConfirmed is set to Yes exactly when the computed
\* scenario is Add or Remove, whatever ReceiptConfirmed held.
C7_Amended ==
    /\ \A out \in Range(unresolved) :
          LET in == df[out.index]
          IN  /\ out.ChangeScenario = in.ChangeScenario
              /\ out.ActionCorrect = in.ActionCorrect
              /\ out.ReceiptConfirmed = in.ReceiptConfirmed
    /\ \A out \in Range(resolved) :
          LET in == df[out.index]
          IN  /\ ~IsEmptyCell(in.ChangeScenario)
                    => /\ out.ChangeScenario = in.ChangeScenario
                       /\ out.ActionCorrect = in.ActionCorrect
              /\ IsEmptyCell(in.ChangeScenario)
                    => /\ out.ChangeScenario \in {MODIFY, REMOVE, ADD}
                       /\ out.ActionCorrect = YES
              /\ out.ReceiptConfirmed \in {in.ReceiptConfirmed, YES}
    \* the row just resolved: scenario is the scenario computed for it
    /\ (resolved # <<>> /\ resolved[Len(resolved)].index = row_i)
          => LET out == resolved[Len(resolved)]
                 in == df[row_i]
             IN  /\ IsEmptyCell(in.ChangeScenario) => out.ChangeScenario = scenario
                 /\ out.ReceiptConfirmed =
                        IF scenario \in {ADD, REMOVE} THEN YES ELSE in.ReceiptConfirmed

\* witness of C7: a matched row that held a scenario and "No" as receipt: the scenario and
\* ActionCorrect are kept, the receipt is now "Yes"
C7_Witness ==
    \E out \in Range(resolved) :
        /\ df[out.index].ChangeScenario = MODIFY
        /\ df[out.index].ActionCorrect = NO
        /\ df[out.index].ReceiptConfirmed = NO
        /\ out.ChangeScenario = MODIFY
        /\ out.ActionCorrect = NO
        /\ out.ReceiptConfirmed = YES

\* the two lists hold, in the order of the roster, the rows gone through so
\* far; the unresolved ones carry an empty MatchSource and the marker
RoutedInOrder ==
    /\ Increasing(Indexes(resolved))
    /\ Increasing(Indexes(unresolved))
    /\ \A out \in Range(unresolved) :
          out.MatchSource = <<>> /\ out.MatchEvidence = NO_MATCH
    /\ \A out \in Range(resolved) : out.MatchSource \in {SUBJECT, BODY, ATTACHMENT}
    /\ \A out \in Range(resolved) \cup Range(unresolved) :
          out.EmployeeNameAndId = df[out.index].EmployeeNameAndId

\* every row of the roster is in exactly one of the two lists: in resolved
\* when some e-mail matched it, in unresolved otherwise
EveryRowRouted ==
    /\ Range(Indexes(resolved)) = {i \in 1..Len(df) : HasMatch(df[i])}
    /\ Range(Indexes(unresolved)) = {i \in 1..Len(df) : ~HasMatch(df[i])}
    /\ Len(resolved) + Len(unresolved) = Len(df)

Dates == {NoDate} \cup 1..MaxDate

SelectMails ==
    {Email(t[1], t[2], <<>>, d) :
        t \in { <<<<"b">>, <<>>>>,              \* "b" in the subject
                <<<<"x">>, <<"b">>>>,           \* "b" in the body
                <<<<"x">>, <<>>>> },            \* no "b"
        d \in Dates}

InitSelect ==
    \E archive \in ListsUpTo(SelectMails, MaxEmails) :
        Entered(<<Row(1, <<<<"b">>, NAN, NAN, NAN>>)>>, archive)

SpecSelect == InitSelect /\ [][Next]_vars

\* the e-mails that matched the current row
Candidates == {matches[k][1] : k \in 1..Len(matches)}

\* C6: the selected e-mail is a candidate of the latest date; it has no date
\* only if no candidate has one; and no candidate of the same date (or, when
\* none has a date, no candidate) comes before it in the archive.
C6_LatestFirstSelected ==
    pc = "emit" =>
        /\ selected.email \in Candidates
        /\ \A c \in Candidates :
              /\ DateKey(c) <= DateKey(selected.email)
              /\ DateKey(c) = DateKey(selected.email) => selected.email <= c
              /\ emails[selected.email].date = NoDate => emails[c].date = NoDate
              /\ (emails[c].date # NoDate /\ emails[selected.email].date # NoDate)
                    => emails[c].date <= emails[selected.email].date

\* witness of C6: three candidates: one without date, then two of the same, latest date; the
\* first of these two is selected
C6_Witness ==
    /\ pc = "emit"
    /\ Len(emails) = 3
    /\ Candidates = {1, 2, 3}
    /\ emails[1].date = NoDate
    /\ emails[2].date = MaxDate
    /\ emails[3].date = MaxDate
    /\ selected.email = 2

(***************************************************************************)
(* SpecLocate: process_roster for one row and one e-mail, over identities  *)
(* with a name, an id or both, and subjects, bodies and attachments that   *)
(* hold the name, the id, both or neither.                                 *)
(***************************************************************************)
IdentityValues ==
    { <<"B", ",", "7">>,     \* name B, id 7
      <<"B">>,               \* name only
      <<",", "7">>,          \* id only
      <<>> }                 \* neither

MatcherLines ==
    { <<"b">>,
      <<"7">>,
      <<"t", "o", ":", " ", "b">>,
      <<"7", "@">>,
      MANAGER \o <<" ", "B">> }

InitLocate ==
    \E v \in IdentityValues,
       subject \in TextsUpTo({"B", "7"}, MaxSubjectLen),
       ls \in ListsUpTo(MatcherLines, MaxMatcherLines),
       texts \in ListsUpTo({<<>>, <<"B">>, <<"7">>}, MaxAttachments) :
        Entered(<<Row(1, <<v, NAN, NAN, NAN>>)>>,
                <<Email(subject, Join(ls, <<"\n">>), texts, NoDate)>>)

SpecLocate == InitLocate /\ [][Next]_vars

\* the source recorded for e-mail j of the current row, NONE when none is
Reported(j) ==
    IF \E k \in 1..Len(matches) : matches[k][1] = j
    THEN matches[CHOOSE k \in 1..Len(matches) : matches[k][1] = j][2]
    ELSE NONE

\* identifier k, when the row has it, occurs in text
IdIn(k, text) == k # <<>> /\ Occurrences(text, k) # {}

\* C1: for every e-mail the loop has gone through, with the name or the id in
\* the lower-cased subject the source is Subject; the source is Body only if
\* neither is in the subject and the body search accepts one; it is
\* Attachment only if neither subject nor body search matched and some
\* attachment holds the name or the id.
C1_SubjectBodyAttachment ==
    (pc \in {"emails", "emit"}) =>
        \A j \in 1..(email_j - 1) :
            LET subject == Lower(emails[j].subject)
                body == Lower(emails[j].body)
                inSubject == IdIn(name_low, subject) \/ IdIn(id_low, subject)
                inBody ==
                    \/ (IdIn(name_low, body) /\ body_has_valid_match(body, name_low))
                    \/ (IdIn(id_low, body) /\ body_has_valid_match(body, id_low))
                inAttachment ==
                    \E a \in 1..Len(emails[j].attachments) :
                        \/ IdIn(name_low, Lower(emails[j].attachments[a].text))
                        \/ IdIn(id_low, Lower(emails[j].attachments[a].text))
            IN  /\ inSubject => Reported(j) = SUBJECT
                /\ Reported(j) = BODY => (~inSubject /\ inBody)
                /\ Reported(j) = ATTACHMENT => (~inSubject /\ ~inBody /\ inAttachment)

\* witness of C1: the id is in the subject, the name on a valid line of the body and in the
\* attachment: the source is Subject
C1_Witness ==
    /\ pc = "emit"
    /\ name_low = <<"b">>
    /\ id_low = <<"7">>
    /\ emails[1].subject = <<"7">>
    /\ emails[1].body = <<"b">>
    /\ Len(emails[1].attachments) = 1
    /\ emails[1].attachments[1].text = <<"B">>
    /\ selected.source = SUBJECT

====
